---------------------------- MODULE Spec2Model ----------------------------
(***************************************************************************)
(* A model of flappy_bird.c: the globals (bird, pipes, next_pipe,         *)
(* game_over, score, last_pipe_time), the SDL millisecond clock, and the  *)
(* main loop (event handlers, update_game, render_game, SDL_Delay).       *)
(*                                                                         *)
(* The bird's y and velocity are C floats.  They are modelled bit-exactly *)
(* as IEEE-754 binary32 values (round to nearest, ties to even, on a      *)
(* build that evaluates float expressions in their own type, i.e.         *)
(* FLT_EVAL_METHOD = 0 as on x86-64): a value is a record                 *)
(*   [neg |-> sign, man |-> 24-bit significand, exp |-> exponent]          *)
(* standing for (-1)^neg * man * 2^exp, with 2^23 <= man < 2^24, or       *)
(* man = 0 and exp = 0 for zero.  Overflow, subnormals, infinities and    *)
(* NaN are not modelled: FloatsInRange states the range the game keeps.   *)
(***************************************************************************)
EXTENDS Integers, Sequences, FiniteSets, TLC

(***************************************************************************)
(* Program constants (#define lines of flappy_bird.c).                    *)
(***************************************************************************)
SCREEN_WIDTH == 800
SCREEN_HEIGHT == 600
BIRD_WIDTH == 40
BIRD_HEIGHT == 30
PIPE_WIDTH == 60
PIPE_GAP == 170
PIPE_SPEED == 3
MAX_PIPES == 10
PIPE_SPAWN_TIME == 1500
\* Height of the ground strip: the literal 20 of update_game and render_game.
GROUND_HEIGHT == 20
\* SDL_Delay(16) at the end of every loop iteration.
FRAME_DELAY == 16

(***************************************************************************)
(* binary32 arithmetic.                                                    *)
(***************************************************************************)
Pow2(n) == 2 ^ n

\* Number of significant bits of a natural number below 2^31.
BitLen(n) == IF n = 0 THEN 0 ELSE CHOOSE l \in 1..31 : Pow2(l - 1) <= n /\ (l = 31 \/ n < Pow2(l))

F32Zero == [neg |-> FALSE, man |-> 0, exp |-> 0]

\* The binary32 value sign * m * 2^e of an integer significand 0 < m < 2^24,
\* which is exactly representable: only normalised.
F32Norm(neg, m, e) ==
    IF m = 0 THEN F32Zero
    ELSE LET s == 24 - BitLen(m)
         IN  [neg |-> neg, man |-> m * Pow2(s), exp |-> e - s]

\* Round sign * m * 2^e (0 <= m < 2^31) to binary32, to nearest, ties to even.
F32Round(neg, m, e) ==
    IF BitLen(m) <= 24 THEN F32Norm(neg, m, e)
    ELSE LET k    == BitLen(m) - 24
             q    == m \div Pow2(k)
             r    == m % Pow2(k)
             half == Pow2(k - 1)
             up   == r > half \/ (r = half /\ q % 2 = 1)
             q2   == IF up THEN q + 1 ELSE q
         IN  IF q2 = Pow2(24)
             THEN [neg |-> neg, man |-> Pow2(23), exp |-> e + k + 1]
             ELSE [neg |-> neg, man |-> q2, exp |-> e + k]

\* The conversion (float)n of a small int n, exact for |n| < 2^24.
F32FromInt(n) == IF n < 0 THEN F32Norm(TRUE, 0 - n, 0) ELSE F32Norm(FALSE, n, 0)

\* The conversion (int)f: truncation toward zero.
F32ToInt(f) ==
    LET mag == IF f.exp >= 0 THEN f.man * Pow2(f.exp)
               ELSE IF f.exp <= -24 THEN 0
               ELSE f.man \div Pow2(0 - f.exp)
    IN  IF f.neg THEN 0 - mag ELSE mag

\* m shifted right by d bits, any bit shifted out kept as a sticky lowest bit.
ShiftRightJam(m, d) ==
    IF d >= 31 THEN (IF m = 0 THEN 0 ELSE 1)
    ELSE LET q == m \div Pow2(d)
             r == m % Pow2(d)
         IN  IF r # 0 /\ q % 2 = 0 THEN q + 1 ELSE q

\* a + b in binary32 (the float addition of  bird.y += bird.velocity).
\* The significands are aligned with three extra low bits (guard, round and
\* sticky), added or subtracted, and the result is rounded once.
F32Add(a, b) ==
    IF a.man = 0 THEN (IF b.man = 0 THEN F32Zero ELSE b)
    ELSE IF b.man = 0 THEN a
    ELSE LET aBig == a.exp > b.exp \/ (a.exp = b.exp /\ a.man >= b.man)
             big  == IF aBig THEN a ELSE b
             sml  == IF aBig THEN b ELSE a
             mb   == big.man * 8
             ms   == ShiftRightJam(sml.man * 8, big.exp - sml.exp)
         IN  IF big.neg = sml.neg
             THEN F32Round(big.neg, mb + ms, big.exp - 3)
             ELSE IF mb = ms THEN F32Zero
             ELSE F32Round(big.neg, mb - ms, big.exp - 3)

(***************************************************************************)
(* bird.velocity += GRAVITY.  GRAVITY is the double literal 0.4, so the   *)
(* sum is formed in binary64 and converted to float by the assignment:    *)
(* (float)((double)velocity + 0.4).  The double nearest 0.4 is            *)
(* 7205759403792794 * 2^-54 = (GravityHi * 2^30 + GravityLo) * 2^-54.      *)
(* The sum is computed exactly as an integer count of 2^-54 in two 30-bit *)
(* limbs, rounded to 53 bits (the double sum) and then to 24 (the float). *)
(***************************************************************************)
GravityHi == 6710886
GravityLo == 429496730
Limb == Pow2(30)

\* A sign-magnitude two-limb integer [neg, hi, lo] = +-(hi * 2^30 + lo).
\* The count of 2^-54 in a float f with |f| < 32 that is a multiple of 2^-54.
FixOfF32(f) ==
    LET k == f.exp + 54
    IN  IF f.man = 0 THEN [neg |-> FALSE, hi |-> 0, lo |-> 0]
        ELSE IF k >= 30
        THEN [neg |-> f.neg, hi |-> f.man * Pow2(k - 30), lo |-> 0]
        ELSE [neg |-> f.neg, hi |-> f.man \div Pow2(30 - k),
                             lo |-> (f.man % Pow2(30 - k)) * Pow2(k)]

\* x + (GravityHi, GravityLo), exactly.
FixAddGravity(x) ==
    IF ~x.neg
    THEN LET lo == x.lo + GravityLo
         IN  [neg |-> FALSE, hi |-> x.hi + GravityHi + lo \div Limb, lo |-> lo % Limb]
    ELSE IF x.hi > GravityHi \/ (x.hi = GravityHi /\ x.lo > GravityLo)
    THEN LET borrow == IF x.lo < GravityLo THEN 1 ELSE 0
         IN  [neg |-> TRUE, hi |-> x.hi - GravityHi - borrow,
                            lo |-> x.lo + borrow * Limb - GravityLo]
    ELSE LET borrow == IF GravityLo < x.lo THEN 1 ELSE 0
         IN  [neg |-> FALSE, hi |-> GravityHi - x.hi - borrow,
                             lo |-> GravityLo + borrow * Limb - x.lo]

FixBitLen(x) == IF x.hi > 0 THEN 30 + BitLen(x.hi) ELSE BitLen(x.lo)

\* Round a two-limb count to 53 significant bits (ties to even): the binary64
\* result of the addition.  At most 7 low bits are dropped (|x| < 2^60).
FixRound53(x) ==
    IF FixBitLen(x) <= 53 THEN x
    ELSE LET k    == FixBitLen(x) - 53
             q    == x.lo \div Pow2(k)
             r    == x.lo % Pow2(k)
             half == Pow2(k - 1)
             up   == r > half \/ (r = half /\ q % 2 = 1)
             lo   == (IF up THEN q + 1 ELSE q) * Pow2(k)
         IN  [neg |-> x.neg, hi |-> x.hi + lo \div Limb, lo |-> lo % Limb]

\* Round a two-limb count of 2^-54 to binary32 (ties to even): the conversion
\* of the binary64 sum to float.
F32OfFix(x) ==
    LET len == FixBitLen(x)
        k   == len - 24
    IN  IF len <= 24 THEN F32Norm(x.neg, x.lo, -54)
        ELSE LET q    == IF k >= 30 THEN x.hi \div Pow2(k - 30)
                         ELSE x.hi * Pow2(30 - k) + x.lo \div Pow2(k)
                 rHi  == IF k >= 30 THEN x.hi % Pow2(k - 30) ELSE 0
                 rLo  == IF k >= 30 THEN x.lo ELSE x.lo % Pow2(k)
                 hHi  == IF k >= 31 THEN Pow2(k - 31) ELSE 0
                 hLo  == IF k >= 31 THEN 0 ELSE Pow2(k - 1)
                 gt   == rHi > hHi \/ (rHi = hHi /\ rLo > hLo)
                 eq   == rHi = hHi /\ rLo = hLo
                 up   == gt \/ (eq /\ q % 2 = 1)
                 q2   == IF up THEN q + 1 ELSE q
             IN  IF q2 = Pow2(24)
                 THEN [neg |-> x.neg, man |-> Pow2(23), exp |-> k - 54 + 1]
                 ELSE [neg |-> x.neg, man |-> q2, exp |-> k - 54]

\* (float)((double)v + 0.4)
AddGravity(v) == F32OfFix(FixRound53(FixAddGravity(FixOfF32(v))))

(***************************************************************************)
(* The program state: the globals of flappy_bird.c and the SDL clock.     *)
(*   bird            Bird: x, y, velocity (floats) and rect (SDL_Rect)     *)
(*   pipes           Pipe pipes[MAX_PIPES], indexed 0..MAX_PIPES-1         *)
(*   next_pipe       the ring cursor                                       *)
(*   game_over, score, last_pipe_time                                      *)
(*   ticks           the value SDL_GetTicks() returns now                  *)
(* and the environment of the main loop:                                   *)
(*   scenario        who plays and how the machine behaves (see Scenarios) *)
(*   pressed         a jump event was handled in this loop iteration       *)
(*   frames          loop iterations completed                             *)
(*   over_at_entry   game_over as it was when this iteration began         *)
(* the output of render_game():                                            *)
(*   readout         the score glyphs of the last frame drawn, in the      *)
(*                   order they were drawn                                 *)
(* and, for check_collision() taken alone:                                 *)
(*   collision       the arguments a and b of a call, whether the call has *)
(*                   been made, whether it has been repeated with a and b  *)
(*                   exchanged, and the value the last call returned       *)
(***************************************************************************)
VARIABLES bird, pipes, next_pipe, game_over, score, last_pipe_time, ticks,
          scenario, pressed, frames, over_at_entry, readout, collision

game == <<bird, pipes, next_pipe, game_over, score, last_pipe_time>>
vars == <<bird, pipes, next_pipe, game_over, score, last_pipe_time, ticks,
          scenario, pressed, frames, over_at_entry, readout, collision>>

PipeIndex == 0 .. (MAX_PIPES - 1)

Rect(x, y, w, h) == [x |-> x, y |-> y, w |-> w, h |-> h]

\* check_collision() gone wrong: the first test lets a's bottom edge touch
\* b's top edge, the second still rejects it from the other side.
check_collision_lopsided(a, b) ==
    LET left_a   == a.x
        right_a  == a.x + a.w
        top_a    == a.y
        bottom_a == a.y + a.h
        left_b   == b.x
        right_b  == b.x + b.w
        top_b    == b.y
        bottom_b == b.y + b.h
    IN  IF bottom_a < top_b THEN FALSE
        ELSE IF top_a >= bottom_b THEN FALSE
        ELSE IF right_a <= left_b THEN FALSE
        ELSE IF left_a >= right_b THEN FALSE
        ELSE TRUE

\* check_collision() gone wrong: rectangles that touch count as colliding.
check_collision_touching(a, b) ==
    LET left_a   == a.x
        right_a  == a.x + a.w
        top_a    == a.y
        bottom_a == a.y + a.h
        left_b   == b.x
        right_b  == b.x + b.w
        top_b    == b.y
        bottom_b == b.y + b.h
    IN  IF bottom_a < top_b THEN FALSE
        ELSE IF top_a > bottom_b THEN FALSE
        ELSE IF right_a < left_b THEN FALSE
        ELSE IF left_a > right_b THEN FALSE
        ELSE TRUE

\* bool check_collision(SDL_Rect a, SDL_Rect b)
check_collision(a, b) ==
    LET left_a   == a.x
        right_a  == a.x + a.w
        top_a    == a.y
        bottom_a == a.y + a.h
        left_b   == b.x
        right_b  == b.x + b.w
        top_b    == b.y
        bottom_b == b.y + b.h
    IN  IF bottom_a <= top_b THEN FALSE
        ELSE IF top_a >= bottom_b THEN FALSE
        ELSE IF right_a <= left_b THEN FALSE
        ELSE IF left_a >= right_b THEN FALSE
        ELSE TRUE

\* create_pipe() gone wrong: the 50-unit margin is left out of the gap position.
new_pipe_no_margin(r) ==
    LET min_gap_y == PIPE_GAP \div 2
        gap_y     == min_gap_y + r
        bottom_y  == gap_y + PIPE_GAP \div 2
    IN  [x           |-> SCREEN_WIDTH,
         gap_y       |-> gap_y,
         passed      |-> FALSE,
         top_rect    |-> Rect(SCREEN_WIDTH, 0, PIPE_WIDTH, gap_y - PIPE_GAP \div 2),
         bottom_rect |-> Rect(SCREEN_WIDTH, bottom_y, PIPE_WIDTH, SCREEN_HEIGHT - bottom_y)]

\* The Pipe that create_pipe() builds when rand() % (max_gap_y - min_gap_y) = r.
new_pipe(r) ==
    LET min_gap_y == PIPE_GAP \div 2 + 50
        gap_y     == min_gap_y + r
        bottom_y  == gap_y + PIPE_GAP \div 2
    IN  [x           |-> SCREEN_WIDTH,
         gap_y       |-> gap_y,
         passed      |-> FALSE,
         top_rect    |-> Rect(SCREEN_WIDTH, 0, PIPE_WIDTH, gap_y - PIPE_GAP \div 2),
         bottom_rect |-> Rect(SCREEN_WIDTH, bottom_y, PIPE_WIDTH, SCREEN_HEIGHT - bottom_y)]

\* The values rand() % (max_gap_y - min_gap_y) can take: 0 .. 329.
RandRange == 0 .. ((SCREEN_HEIGHT - PIPE_GAP \div 2 - 50) - (PIPE_GAP \div 2 + 50) - 1)

\* The bird that reset_game() sets up.
reset_bird ==
    LET x == F32FromInt(SCREEN_WIDTH \div 4)
        y == F32FromInt(SCREEN_HEIGHT \div 2)
    IN  [x |-> x, y |-> y, velocity |-> F32Zero,
         rect |-> Rect(F32ToInt(x), F32ToInt(y), BIRD_WIDTH, BIRD_HEIGHT)]

\* reset_game() gone wrong: the slots are left at the right edge of the screen.
reset_pipes_onscreen(ps) == [i \in PipeIndex |-> [ps[i] EXCEPT !.x = SCREEN_WIDTH]]

\* The pipes after reset_game()'s loop: only x is assigned.
reset_pipes(ps) == [i \in PipeIndex |-> [ps[i] EXCEPT !.x = SCREEN_WIDTH * 2]]

\* void reset_game(), as an action on the globals.
reset_game ==
    /\ bird' = reset_bird
    /\ pipes' = reset_pipes(pipes)
    /\ game_over' = FALSE
    /\ score' = 0
    /\ last_pipe_time' = ticks
    /\ UNCHANGED next_pipe

\* A zero-initialised SDL_Rect and Pipe (the globals before main runs).
ZeroRect == Rect(0, 0, 0, 0)
ZeroPipe == [x |-> 0, gap_y |-> 0, passed |-> FALSE,
             top_rect |-> ZeroRect, bottom_rect |-> ZeroRect]

(***************************************************************************)
(* update_game(), in the order of the code.                                *)
(***************************************************************************)
\* The spawn test gone wrong: a pipe is spawned once 1500 ms have passed.
spawn_due_inclusive(now) == now - last_pipe_time >= PIPE_SPAWN_TIME

\* Lines 242-247: whether a pipe is spawned at clock value now.
spawn_due(now) == now - last_pipe_time > PIPE_SPAWN_TIME

\* pipes and next_pipe after create_pipe() with random draw r.
create_pipe_pipes(ps, np, r) == [ps EXCEPT ![np] = new_pipe(r)]
\* The cursor gone wrong: the ring is taken to have two slots.
create_pipe_next_short_ring(np) == (np + 1) % 2

create_pipe_next(np) == (np + 1) % MAX_PIPES

\* The update gone wrong: the position is integrated before gravity is added.
bird_fall_late_gravity(b) ==
    LET y == F32Add(b.y, b.velocity)
    IN  [b EXCEPT !.velocity = AddGravity(b.velocity), !.y = y, !.rect.y = F32ToInt(y)]

\* Lines 250-252: gravity, integration and the box.
bird_fall(b) ==
    LET v == AddGravity(b.velocity)
        y == F32Add(b.y, v)
    IN  [b EXCEPT !.velocity = v, !.y = y, !.rect.y = F32ToInt(y)]

\* The ceiling gone wrong: the velocity is kept.
bird_ceiling_keeps_velocity(b) ==
    IF b.rect.y < 0 THEN [b EXCEPT !.rect.y = 0, !.y = F32Zero] ELSE b

\* Lines 255-260: the ceiling.
bird_ceiling(b) ==
    IF b.rect.y < 0
    THEN [b EXCEPT !.rect.y = 0, !.y = F32Zero, !.velocity = F32Zero]
    ELSE b

bird_update(b) == bird_ceiling(bird_fall(b))

\* The ground test gone wrong: the ceiling ends the run too.
hits_ground_or_ceiling(b) ==
    b.rect.y + b.rect.h > SCREEN_HEIGHT - GROUND_HEIGHT \/ b.rect.y <= 0

\* The ground test gone wrong: the ground strip is forgotten.
hits_ground_below_screen(b) == b.rect.y + b.rect.h > SCREEN_HEIGHT

\* Line 263: the ground.
hits_ground(b) == b.rect.y + b.rect.h > SCREEN_HEIGHT - GROUND_HEIGHT

\* The skip gone wrong: the slots reset_game() has parked are not skipped.
pipe_active_parked(p) == ~(p.x > SCREEN_WIDTH * 2)

\* Line 272: the pipes the loop does not skip.
pipe_active(p) == ~(p.x > SCREEN_WIDTH + 100)

\* The advance gone wrong: the pipe is moved to the right.
pipe_move_rightwards(p) ==
    [p EXCEPT !.x = p.x + PIPE_SPEED,
              !.top_rect.x = p.x + PIPE_SPEED,
              !.bottom_rect.x = p.x + PIPE_SPEED]

\* The advance gone wrong: the lower box is not moved with the pipe.
pipe_move_top_only(p) ==
    [p EXCEPT !.x = p.x - PIPE_SPEED,
              !.top_rect.x = p.x - PIPE_SPEED]

\* Lines 276-278: the pipe moved.
pipe_move(p) ==
    [p EXCEPT !.x = p.x - PIPE_SPEED,
              !.top_rect.x = p.x - PIPE_SPEED,
              !.bottom_rect.x = p.x - PIPE_SPEED]

\* Scoring gone wrong: the passed flag is not consulted.
pipe_scores_again(p, b) == p.x + PIPE_WIDTH < b.rect.x

\* Scoring gone wrong: a pipe whose right edge touches the box counts.
pipe_scores_touching(p, b) == ~p.passed /\ p.x + PIPE_WIDTH <= b.rect.x

\* Line 281, on the moved pipe p and the bird b after its update.
pipe_scores(p, b) == ~p.passed /\ p.x + PIPE_WIDTH < b.rect.x

\* Lines 272-285: one pipe after its loop body.
pipe_step(p, b) ==
    IF ~pipe_active(p) THEN p
    ELSE LET m == pipe_move(p)
         IN  IF pipe_scores(m, b) THEN [m EXCEPT !.passed = TRUE] ELSE m

\* The collision test gone wrong: the lower box is forgotten.
pipe_hits_top_only(p, b) ==
    pipe_active(p) /\ check_collision(b.rect, pipe_move(p).top_rect)

\* Lines 288-292, on the moved pipe.
pipe_hits(p, b) ==
    /\ pipe_active(p)
    /\ \/ check_collision(b.rect, pipe_move(p).top_rect)
       \/ check_collision(b.rect, pipe_move(p).bottom_rect)

\* void update_game(), reading the clock value ticks, with random draw r
\* (used only when a pipe is spawned).
update_game(r) ==
    LET due == spawn_due(ticks)
        ps  == IF due THEN create_pipe_pipes(pipes, next_pipe, r) ELSE pipes
        b   == bird_update(bird)
    IN  /\ next_pipe' = IF due THEN create_pipe_next(next_pipe) ELSE next_pipe
        /\ last_pipe_time' = IF due THEN ticks ELSE last_pipe_time
        /\ bird' = b
        /\ pipes' = [i \in PipeIndex |-> pipe_step(ps[i], b)]
        /\ score' = score + Cardinality({i \in PipeIndex :
                              pipe_active(ps[i]) /\ pipe_scores(pipe_move(ps[i]), b)})
        /\ game_over' = (game_over \/ hits_ground(b)
                           \/ \E i \in PipeIndex : pipe_hits(ps[i], b))

(***************************************************************************)
(* render_game(): the score readout (lines 333-412).  A glyph is the      *)
(* digit drawn, the x_position it is drawn at and how it is drawn: the    *)
(* four filled rectangles of the special case for score 0, line segments  *)
(* for the digits 0 to 2, a filled square for the digits 3 to 9.          *)
(***************************************************************************)
digit_width == 20
digit_spacing == 5
x_position == 20

Glyph(digit, x, shape) == [digit |-> digit, x |-> x, shape |-> shape]

\* The switch of lines 371-408.
digit_shape(digit) == IF digit <= 2 THEN "segments" ELSE "square"

\* The loop of lines 363-412, entered with score_display and x_position = x.
RECURSIVE draw_digits(_, _)
draw_digits(score_display, x) ==
    IF score_display > 0
    THEN <<Glyph(score_display % 10, x, digit_shape(score_display % 10))>>
         \o draw_digits(score_display \div 10, x + digit_width + digit_spacing)
    ELSE <<>>

\* The glyphs render_game() draws for score s.
score_readout(s) ==
    IF s = 0 THEN <<Glyph(0, x_position, "rectangles")>>
    ELSE draw_digits(s, x_position)

(***************************************************************************)
(* The environment of the main loop.  A scenario fixes, for one run,      *)
(*   player   who produces the jump events (SDLK_SPACE / left button):    *)
(*            "free"   may press or not in every iteration,                *)
(*            "idle"   never presses,                                      *)
(*            "mash"   presses in every iteration (key repeat),            *)
(*            "hover"  presses when the game is over or the bird's box is  *)
(*                     at or below the line  line,                         *)
(*   lag      what an iteration takes beyond SDL_Delay(16), in ms, before  *)
(*            iteration  slowFrom, and  lateLag  from then on,             *)
(*   draws    the values rand() % 330 may return in create_pipe,           *)
(*   horizon  the number of loop iterations the run is followed for.       *)
(***************************************************************************)
MaxFrames == 420
MaxFreeFrames == 12
MaxStallFrames == 24
\* The iteration from which the machine of the last scenario is slow: the
\* first pipe of a 16 ms run is spawned in iteration 94 and scored in 315.
SlowFrom == 316
\* A player who keeps the bird at the middle of the screen, and one who keeps
\* it under the ceiling.
MidLine == 300
TopLine == 45
\* A 16 ms run long enough for the ring to wrap: the 11th pipe is spawned in
\* iteration 1034.
MaxLongFrames == 1050
\* A run whose single spawn may draw any value of rand() % 330.
MaxDrawFrames == 3
\* A run of a machine so slow that a pipe is spawned in every iteration.
MaxIdleFrames == 40

Player(kind, line) == [kind |-> kind, line |-> line]

Scenario(player, lag, slowFrom, lateLag, draws, horizon) ==
    [player |-> player, lag |-> lag, slowFrom |-> slowFrom, lateLag |-> lateLag,
     draws |-> draws, horizon |-> horizon]

\* rand() % 330 for the highest, the middle and the lowest gap.
EdgeDraws == {0, 165, 329}
MidDraw == {165}
\* rand() % 330 for the gap whose upper box ends at y = 224, where the box of a
\* player hovering at the middle of the screen has its top at the apex.
TouchDraw == {174}

\* An iteration that takes exactly PIPE_SPAWN_TIME, and one that takes more.
ExactLag == PIPE_SPAWN_TIME - FRAME_DELAY
LongLag == PIPE_SPAWN_TIME
\* An iteration that takes an eighth of PIPE_SPAWN_TIME: a spawn in every ninth.
EighthLag == PIPE_SPAWN_TIME \div 8 - FRAME_DELAY

Scenarios ==
    {Scenario(Player("hover", MidLine), 0, 0, 0, EdgeDraws, MaxFrames),
     Scenario(Player("hover", MidLine), 4, 0, 4, EdgeDraws, MaxFrames),
     Scenario(Player("hover", TopLine), 0, 0, 0, EdgeDraws, MaxFrames),
     Scenario(Player("hover", SCREEN_HEIGHT), 0, 0, 0, EdgeDraws, MaxFrames),
     Scenario(Player("idle", 0), 0, 0, 0, EdgeDraws, MaxFrames),
     Scenario(Player("mash", 0), 0, 0, 0, EdgeDraws, MaxFrames),
     Scenario(Player("free", 0), 0, 0, 0, EdgeDraws, MaxFreeFrames),
     Scenario(Player("free", 0), LongLag, 0, LongLag, MidDraw, MaxFreeFrames),
     Scenario(Player("hover", MidLine), ExactLag, 0, ExactLag, MidDraw, MaxStallFrames),
     Scenario(Player("hover", MidLine), 0, SlowFrom, LongLag, MidDraw, SlowFrom + MaxStallFrames),
     Scenario(Player("hover", MidLine), 0, 0, 0, MidDraw, MaxLongFrames),
     Scenario(Player("hover", MidLine), ExactLag, 0, ExactLag, RandRange, MaxDrawFrames),
     Scenario(Player("idle", 0), LongLag, 0, LongLag, MidDraw, MaxIdleFrames),
     Scenario(Player("idle", 0), EighthLag, 0, EighthLag, EdgeDraws, MaxIdleFrames),
     Scenario(Player("hover", MidLine), 0, 0, 0, TouchDraw, MaxFrames)}

\* The player may press now.
MayPress ==
    CASE scenario.player.kind = "free"  -> TRUE
      [] scenario.player.kind = "idle"  -> FALSE
      [] scenario.player.kind = "mash"  -> TRUE
      [] scenario.player.kind = "hover" -> game_over \/ bird.rect.y >= scenario.player.line

\* The player presses before this iteration's event queue is drained.
MustPress == scenario.player.kind # "free" /\ MayPress /\ ~pressed

\* What this iteration takes beyond the frame delay.
Lag == IF frames < scenario.slowFrom THEN scenario.lag ELSE scenario.lateLag

\* No call of check_collision() on its own is under way.
NoCall == [a |-> ZeroRect, b |-> ZeroRect, called |-> FALSE, swapped |-> FALSE,
           result |-> FALSE]

(***************************************************************************)
(* main(): the state when the loop is entered, after reset_game() on the  *)
(* zero-initialised globals and the first render_game().                   *)
(***************************************************************************)
Init ==
    /\ bird = reset_bird
    /\ pipes = reset_pipes([i \in PipeIndex |-> ZeroPipe])
    /\ next_pipe = 0
    /\ game_over = FALSE
    /\ score = 0
    /\ last_pipe_time = 0
    /\ ticks = 0
    /\ scenario \in Scenarios
    /\ pressed = FALSE
    /\ frames = 0
    /\ over_at_entry = FALSE
    /\ readout = score_readout(0)
    /\ collision = NoCall

\* The handlers gone wrong: the impulse is added to the velocity.
jump_or_restart_additive ==
    IF game_over
    THEN reset_game
    ELSE /\ bird' = [bird EXCEPT !.velocity = F32Add(bird.velocity, F32FromInt(-8))]
         /\ UNCHANGED <<pipes, next_pipe, game_over, score, last_pipe_time>>

\* The body shared by the SDLK_SPACE and SDL_BUTTON_LEFT handlers.
jump_or_restart ==
    IF game_over
    THEN reset_game
    ELSE /\ bird' = [bird EXCEPT !.velocity = F32FromInt(-8)]
         /\ UNCHANGED <<pipes, next_pipe, game_over, score, last_pipe_time>>

\* An SDL_KEYDOWN event with SDLK_SPACE is polled (lines 131-144).
KeySpace ==
    /\ MayPress
    /\ jump_or_restart
    /\ pressed' = TRUE
    /\ UNCHANGED <<ticks, scenario, frames, over_at_entry, readout, collision>>

\* An SDL_MOUSEBUTTONDOWN event with SDL_BUTTON_LEFT is polled (lines 150-163).
MouseLeft ==
    /\ MayPress
    /\ jump_or_restart
    /\ pressed' = TRUE
    /\ UNCHANGED <<ticks, scenario, frames, over_at_entry, readout, collision>>

\* The loop gone wrong: update_game() is called whether or not the game is over.
Frame_always_updates ==
    /\ ~MustPress
    /\ frames < scenario.horizon
    /\ \E r \in (IF spawn_due(ticks) THEN scenario.draws \cap RandRange ELSE {0}) :
          update_game(r)
    /\ ticks' = ticks + FRAME_DELAY + Lag
    /\ frames' = frames + 1
    /\ pressed' = FALSE
    /\ over_at_entry' = game_over'
    /\ readout' = score_readout(score')
    /\ UNCHANGED <<scenario, collision>>

\* The rest of a loop iteration once the event queue is empty (lines 166-176):
\* update_game() unless the game is over, render_game(), SDL_Delay(16).
\* render_game() reads the state update_game() left.
Frame ==
    /\ ~MustPress
    /\ frames < scenario.horizon
    /\ IF game_over
       THEN UNCHANGED game
       ELSE \E r \in (IF spawn_due(ticks) THEN scenario.draws \cap RandRange ELSE {0}) :
               update_game(r)
    /\ ticks' = ticks + FRAME_DELAY + Lag
    /\ frames' = frames + 1
    /\ pressed' = FALSE
    /\ over_at_entry' = game_over'
    /\ readout' = score_readout(score')
    /\ UNCHANGED <<scenario, collision>>

Next == KeySpace \/ MouseLeft \/ Frame

Spec == Init /\ [][Next]_vars

(***************************************************************************)
(* The runs in which nobody plays: no jump event is ever polled, and the  *)
(* main loop, which never stops iterating while the window is open, goes  *)
(* from frame to frame.  The fairness condition is on FrameGoesOn, the    *)
(* step from one loop iteration to the next: it is enabled exactly when   *)
(* Frame is (update_game() cannot fail), and the steps of NextIdle that   *)
(* are FrameGoesOn steps are the Frame steps.                              *)
(***************************************************************************)
InitIdle == Init /\ scenario.player.kind = "idle"

NextIdle == Frame

FrameGoesOn == ~MustPress /\ frames < scenario.horizon /\ frames' = frames + 1

LiveSpec == InitIdle /\ [][NextIdle]_vars /\ WF_frames(FrameGoesOn)

(***************************************************************************)
(* check_collision() taken alone: a call on two rectangles drawn from a   *)
(* bounded set (zero-sized ones included), then the call with the         *)
(* arguments exchanged.  The globals stay as reset_game() left them.      *)
(***************************************************************************)
MaxCoord == 2
MaxSize == 2

Rects == {Rect(x, y, w, h) : x \in 0 .. MaxCoord, y \in 0 .. MaxCoord,
                             w \in 0 .. MaxSize, h \in 0 .. MaxSize}

\* The globals after reset_game() at clock value 0, nobody playing.
InitGlobals ==
    /\ bird = reset_bird
    /\ pipes = reset_pipes([i \in PipeIndex |-> ZeroPipe])
    /\ next_pipe = 0
    /\ game_over = FALSE
    /\ last_pipe_time = 0
    /\ ticks = 0
    /\ scenario = Scenario(Player("idle", 0), 0, 0, 0, MidDraw, 0)
    /\ pressed = FALSE
    /\ frames = 0
    /\ over_at_entry = FALSE

InitCollision ==
    /\ InitGlobals
    /\ score = 0
    /\ readout = score_readout(0)
    /\ \E a \in Rects, b \in Rects :
          collision = [a |-> a, b |-> b, called |-> FALSE, swapped |-> FALSE,
                       result |-> FALSE]

\* check_collision(a, b)
CallCheckCollision ==
    /\ ~collision.called
    /\ collision' = [collision EXCEPT !.called = TRUE,
                         !.result = check_collision(collision.a, collision.b)]
    /\ UNCHANGED <<bird, pipes, next_pipe, game_over, score, last_pipe_time, ticks,
                   scenario, pressed, frames, over_at_entry, readout>>

\* check_collision(b, a)
CallCheckCollisionSwapped ==
    /\ collision.called /\ ~collision.swapped
    /\ collision' = [a |-> collision.b, b |-> collision.a, called |-> TRUE,
                     swapped |-> TRUE,
                     result |-> check_collision(collision.b, collision.a)]
    /\ UNCHANGED <<bird, pipes, next_pipe, game_over, score, last_pipe_time, ticks,
                   scenario, pressed, frames, over_at_entry, readout>>

NextCollision == CallCheckCollision \/ CallCheckCollisionSwapped

CollisionSpec == InitCollision /\ [][NextCollision]_vars

(***************************************************************************)
(* render_game() taken alone: the readout of a score drawn from a bounded *)
(* set, on a screen nothing has been drawn on yet.                         *)
(***************************************************************************)
MaxScore == 120

NothingDrawn == <<>>

InitRender ==
    /\ InitGlobals
    /\ score \in 0 .. MaxScore
    /\ readout = NothingDrawn
    /\ collision = NoCall

\* render_game(renderer)
Render ==
    /\ readout = NothingDrawn
    /\ readout' = score_readout(score)
    /\ UNCHANGED <<bird, pipes, next_pipe, game_over, score, last_pipe_time, ticks,
                   scenario, pressed, frames, over_at_entry, collision>>

NextRender == Render

RenderSpec == InitRender /\ [][NextRender]_vars

(***************************************************************************)
(* The range the floats stay in: the two-limb sum of AddGravity needs     *)
(* |velocity| < 32 and velocity a multiple of 2^-54; F32ToInt needs       *)
(* |y| < 2^31.                                                             *)
(***************************************************************************)
FloatsInRange ==
    /\ bird.velocity.man = 0 \/ (bird.velocity.exp >= -54 /\ bird.velocity.exp <= -19)
    /\ bird.y.man = 0 \/ (bird.y.exp >= -126 /\ bird.y.exp <= -14)

(***************************************************************************)
(* Vocabulary of the properties.                                           *)
(***************************************************************************)
\* This step is the tail of a loop iteration (update, render, delay).
FrameStep == frames' = frames + 1
\* This step is a jump event (either handler).
JumpStep == frames' = frames /\ pressed'
\* A frame step that runs update_game().
UpdateStep == FrameStep /\ ~game_over

\* binary32 values named in the properties.
FZero == [neg |-> FALSE, man |-> 0, exp |-> 0]
F200 == [neg |-> FALSE, man |-> 13107200, exp |-> -16]
F300 == [neg |-> FALSE, man |-> 9830400, exp |-> -15]
FMinus8 == [neg |-> TRUE, man |-> 8388608, exp |-> -20]
\* 0.4f, 300.4f (the floats nearest 0.4 and 300.4), -7.6f and 292.4f
F0p4 == [neg |-> FALSE, man |-> 13421773, exp |-> -25]
F300p4 == [neg |-> FALSE, man |-> 9843507, exp |-> -15]
FMinus7p6 == [neg |-> TRUE, man |-> 15938355, exp |-> -21]
F292p4 == [neg |-> FALSE, man |-> 9581363, exp |-> -15]

\* floor(f) of a binary32 value.
F32Floor(f) ==
    LET frac == /\ f.man # 0
                /\ f.exp < 0
                /\ (f.exp <= -24 \/ f.man % Pow2(0 - f.exp) # 0)
    IN  IF f.neg /\ frac THEN F32ToInt(f) - 1 ELSE F32ToInt(f)

\* Two rectangles share interior points.
Overlap(a, b) ==
    /\ a.x < b.x + b.w /\ b.x < a.x + a.w
    /\ a.y < b.y + b.h /\ b.y < a.y + a.h

\* Slot i is advanced by the update of this step: it is the slot a spawn of
\* this step fills, or it was within SCREEN_WIDTH + 100 before.
Advanced(i) ==
    \/ spawn_due(ticks) /\ i = next_pipe
    \/ pipes[i].x <= SCREEN_WIDTH + 100

\* After this step the bird's box overlaps a box of a slot advanced in it.
PipeOverlapAfter ==
    \E i \in PipeIndex :
        /\ Advanced(i)
        /\ \/ Overlap(bird'.rect, pipes'[i].top_rect)
           \/ Overlap(bird'.rect, pipes'[i].bottom_rect)

\* The box y of this step's update before the ceiling is looked at.
BoxYAfterFall == F32ToInt(F32Add(bird.y, AddGravity(bird.velocity)))

\* The state reset_game() leaves, as the specification words it.
IsResetState ==
    /\ ~game_over
    /\ score = 0
    /\ bird.y = F300 /\ bird.velocity = FZero
    /\ bird.rect = [x |-> 200, y |-> 300, w |-> 40, h |-> 30]
    /\ last_pipe_time = ticks
    /\ \A i \in PipeIndex : pipes[i].x = 1600 /\ pipes[i].x >= SCREEN_WIDTH

(***************************************************************************)
(* C1.  Once game_over is true, a loop iteration that receives no jump    *)
(* event leaves the whole simulation state (bird, pipes, cursor, score,   *)
(* game_over, last_pipe_time) unchanged, whatever the clock does.         *)
(***************************************************************************)
C1_GameOverFrozen ==
    [][(FrameStep /\ over_at_entry /\ ~pressed) => (game_over /\ UNCHANGED game)]_vars

\* The game has been over for many iterations while the clock ran on.
C1_Witness ==
    /\ game_over /\ over_at_entry
    /\ scenario.player.kind = "idle"
    /\ frames >= 100
    /\ ticks - last_pipe_time > PIPE_SPAWN_TIME

(***************************************************************************)
(* C2.  Immediately after reset_game(), from any prior state: game_over   *)
(* is false, score is 0, the bird is at y = 300 (box 200,300,40,30) with  *)
(* velocity 0, last_pipe_time is the current clock value and all ten      *)
(* slots have x = 1600.  reset_game() runs before the loop is entered and *)
(* on a jump event while the game is over.                                 *)
(***************************************************************************)
C2_ResetState ==
    /\ IsResetState
    /\ [][(JumpStep /\ game_over) => IsResetState']_vars

\* A restart from a game in which a pipe had been passed.
C2_Witness ==
    /\ pressed /\ over_at_entry /\ IsResetState
    /\ \E i \in PipeIndex : pipes[i].passed

(***************************************************************************)
(* C3 as claimed.  In an iteration entered with game_over true in which a *)
(* jump event arrives, reset_game() runs instead of the update, so the    *)
(* state at the end of the iteration is the reset state.                   *)
(***************************************************************************)
C3_Original ==
    [][(FrameStep /\ over_at_entry /\ pressed) =>
          /\ bird' = reset_bird
          /\ score' = 0 /\ ~game_over'
          /\ \A i \in PipeIndex : pipes'[i].x = 1600]_vars

(***************************************************************************)
(* C3 as amended.  In an iteration entered with game_over true, a jump    *)
(* event runs reset_game(); reset_game() clears game_over, so             *)
(* update_game() still runs in the same iteration.  At the end of the     *)
(* iteration the state is the reset state advanced by one update: no      *)
(* pipe is spawned, all slots stay at x = 1600, score is 0, game_over is  *)
(* false, and the bird has velocity 0.4f at y = 300.4f (box y 300) -- or  *)
(* velocity -7.6f at y = 292.4f (box y 292) when a second jump event      *)
(* followed the restart in the same iteration.                             *)
(***************************************************************************)
C3_RestartThenUpdate ==
    [][(FrameStep /\ over_at_entry /\ pressed) =>
          /\ ~game_over /\ ~game_over'
          /\ score' = 0
          /\ \A i \in PipeIndex : pipes'[i].x = 1600
          /\ next_pipe' = next_pipe
          /\ last_pipe_time' = ticks
          /\ \/ /\ bird.velocity = FZero
                /\ bird'.velocity = F0p4 /\ bird'.y = F300p4 /\ bird'.rect.y = 300
             \/ /\ bird.velocity = FMinus8
                /\ bird'.velocity = FMinus7p6 /\ bird'.y = F292p4 /\ bird'.rect.y = 292]_vars

\* The end of an iteration that restarted the game: one update after a reset.
C3_Witness ==
    /\ ~pressed /\ ~game_over /\ frames > 1
    /\ bird.velocity = F0p4 /\ bird.y = F300p4
    /\ last_pipe_time + FRAME_DELAY + Lag = ticks
    /\ \A i \in PipeIndex : pipes[i].x = 1600

(***************************************************************************)
(* C4.  In every step that runs update_game(), score does not decrease    *)
(* and grows by exactly the number of slots whose passed flag goes from   *)
(* false to true in that step; score decreases only in reset_game(),      *)
(* which sets it to 0.                                                      *)
(***************************************************************************)
C4_ScoreMonotone ==
    [][/\ UpdateStep =>
            /\ score' >= score
            /\ score' - score =
                 Cardinality({i \in PipeIndex : ~pipes[i].passed /\ pipes'[i].passed})
       /\ score' < score => (JumpStep /\ game_over /\ score' = 0)]_vars

\* A pipe has been passed and scored in the running game.
C4_Witness ==
    /\ ~game_over /\ score = 2
    /\ Cardinality({i \in PipeIndex : pipes[i].passed /\ pipe_active(pipes[i])}) = 2

(***************************************************************************)
(* C5.  Each spawned pipe adds exactly 1 to score, at most once between   *)
(* its spawn and the reuse of its slot: a slot in play (spawned since the *)
(* last reset) is marked passed exactly when its right edge x + 60 is     *)
(* left of the bird's box x = 200, so it is scored in the first step in   *)
(* which that holds; the flag goes back to false only when a spawn        *)
(* overwrites the slot; and score counts the pipes of this game that have *)
(* been marked passed: it equals the number of passed slots in play       *)
(* until a slot is reused, and is never below it.                          *)
(***************************************************************************)
PassedInPlay == {i \in PipeIndex : pipe_active(pipes[i]) /\ pipes[i].passed}

C5_ScoredOnce ==
    /\ [](/\ \A i \in PipeIndex :
               pipe_active(pipes[i]) =>
                   (pipes[i].passed <=> pipes[i].x + 60 < 200)
          /\ score >= Cardinality(PassedInPlay)
          /\ (\E i \in PipeIndex : ~pipe_active(pipes[i]))
                 => score = Cardinality(PassedInPlay))
    /\ [][/\ \A i \in PipeIndex :
               (pipes[i].passed /\ ~pipes'[i].passed) =>
                   (UpdateStep /\ spawn_due(ticks) /\ i = next_pipe)
          /\ \A i \in PipeIndex :
               (UpdateStep /\ ~pipes[i].passed /\ pipes'[i].passed) =>
                   (pipes'[i].x + 60 < 200 /\ pipes[i].x + 60 >= 200)
          /\ UpdateStep =>
               score' = score + Cardinality({i \in PipeIndex :
                                   ~pipes[i].passed /\ pipes'[i].passed})
          /\ ~UpdateStep => \A i \in PipeIndex : pipes'[i].passed = pipes[i].passed]_vars

\* The slot of a pipe that was scored has been reused by a later spawn: the
\* point stays although no slot in play is marked passed any more.
C5_Witness ==
    /\ ~game_over /\ score = 1
    /\ \A i \in PipeIndex : pipe_active(pipes[i]) /\ ~pipes[i].passed

(***************************************************************************)
(* C6.  In a step that runs update_game(), game_over is true afterwards   *)
(* exactly when, after the bird's physics and ceiling clamp, the box      *)
(* bottom is below the ground line (box y + 30 > 580) or the box overlaps *)
(* the upper or lower box of a slot advanced in that step, tested after   *)
(* the advance.                                                             *)
(***************************************************************************)
C6_GameOverIff ==
    [][UpdateStep =>
          (game_over' <=> (bird'.rect.y + 30 > 600 - 20 \/ PipeOverlapAfter))]_vars

\* The run was ended by a pipe, above the ground line.
C6_Witness ==
    /\ game_over /\ bird.rect.y + 30 <= 580
    /\ \E i \in PipeIndex :
          pipe_active(pipes[i]) /\ Overlap(bird.rect, pipes[i].bottom_rect)

(***************************************************************************)
(* C7 as claimed.  The ceiling ends the run: in a step that runs          *)
(* update_game() and in which the box y is < 0 after integrating the      *)
(* velocity, game_over is true afterwards.                                 *)
(***************************************************************************)
C7_Original ==
    [][(UpdateStep /\ BoxYAfterFall < 0) => game_over']_vars

(***************************************************************************)
(* C7 as amended.  The ceiling does not end the run: in a step that runs  *)
(* update_game() and in which the box y is < 0 after integrating the      *)
(* velocity, the box is put back at y = 0 and game_over is true           *)
(* afterwards only if the box overlaps a pipe advanced in that step.      *)
(***************************************************************************)
C7_CeilingDoesNotEnd ==
    [][(UpdateStep /\ BoxYAfterFall < 0) =>
          (bird'.rect.y = 0 /\ (game_over' <=> PipeOverlapAfter))]_vars

\* The bird has just been stopped at the ceiling and the game goes on.
C7_Witness ==
    /\ ~game_over /\ ~pressed /\ frames > 0
    /\ scenario.player.kind = "hover"
    /\ bird.rect.y = 0 /\ bird.y = FZero /\ bird.velocity = FZero

(***************************************************************************)
(* C8.  Ceiling clamp: in a step that runs update_game(), if the box y is *)
(* < 0 after velocity += 0.4 and y += velocity, then y and box y are set  *)
(* to 0 and velocity to 0; so the box y is >= 0 in every reachable state. *)
(***************************************************************************)
C8_CeilingClamp ==
    /\ [](bird.rect.y >= 0)
    /\ [][(UpdateStep /\ BoxYAfterFall < 0) =>
             (bird'.y = FZero /\ bird'.rect.y = 0 /\ bird'.velocity = FZero)]_vars

\* A bird held against the ceiling by jump after jump.
C8_Witness ==
    /\ scenario.player.kind = "mash" /\ frames >= 100 /\ ~pressed
    /\ bird.y = FZero /\ bird.rect.y = 0 /\ bird.velocity = FZero

(***************************************************************************)
(* C9.  In every reachable state the bird's box y is floor(y), also when  *)
(* y is a negative fraction, and x and box x stay at 200.                 *)
(* The code converts with (int)bird.y (line 252), which truncates toward  *)
(* zero: for -1 < y < 0 the box y is 0 where floor(y) is -1, and the      *)
(* ceiling clamp, which tests the box y, does not act.                     *)
(***************************************************************************)
C9_BoxIsFloorY ==
    /\ bird.rect.y = F32Floor(bird.y)
    /\ bird.x = F200 /\ bird.rect.x = 200

(***************************************************************************)
(* C10.  A jump event while game_over is false sets the velocity to       *)
(* exactly -8.0 whatever it was (it replaces, it does not add) and        *)
(* changes nothing else: y, the box, score, the pipes, game_over.         *)
(***************************************************************************)
C10_JumpSetsVelocity ==
    [][(JumpStep /\ ~game_over) =>
          /\ bird'.velocity = FMinus8
          /\ bird' = [bird EXCEPT !.velocity = FMinus8]
          /\ UNCHANGED <<pipes, next_pipe, game_over, score, last_pipe_time, ticks>>]_vars

\* A jump taken while falling below the middle of the screen.
C10_Witness ==
    /\ pressed /\ ~game_over /\ ~over_at_entry
    /\ bird.velocity = FMinus8
    /\ bird.rect.y > 300

(***************************************************************************)
(* Vocabulary of the properties about the pipes.                           *)
(***************************************************************************)
\* The x slot i has when the advance loop of this step's update reaches it:
\* 800 in the slot a spawn of this step has just filled, the x it had else.
XAtAdvance(i) ==
    IF ticks - last_pipe_time > 1500 /\ i = next_pipe THEN 800 ELSE pipes[i].x

\* Every iteration of this run takes the same time.
SteadyClock == scenario.lag = scenario.lateLag

\* Every iteration of this run takes the 16 ms of the frame delay.
Clock16 == scenario.lag = 0 /\ scenario.lateLag = 0

\* The slot filled by the k-th latest spawn (k = 0: the latest).
SlotBack(k) == (next_pipe + 10 - 1 - k) % 10

\* Updates run since the latest spawn, that spawn's update included, counted
\* on the clock of a steady run in which the game is not over.
UpdatesSinceSpawn == (ticks - last_pipe_time) \div (16 + scenario.lag)

(***************************************************************************)
(* C11.  In every step that runs update_game(), every slot whose x is     *)
(* <= 900 when the advance loop reaches it (after the spawn of that step, *)
(* if any) has its x decreased by exactly 3, and every slot with x > 900  *)
(* keeps its x.  So a pipe created at x = 800 has x = 800 - 3*n after n   *)
(* advances: every slot in play has x = 800 - 3*n for some n >= 1; in a   *)
(* steady run the latest pipe has n = the number of updates since its     *)
(* spawn; and in a 16 ms run, where the spawns are 94 updates apart, the  *)
(* k-th latest pipe has n = 94*k more (398 after 134).                     *)
(***************************************************************************)
C11_PipeAdvance ==
    /\ [](\A i \in PipeIndex :
             pipes[i].x <= 900 =>
                 (pipes[i].x <= 797 /\ (800 - pipes[i].x) % 3 = 0))
    /\ []((SteadyClock /\ ~game_over /\ pipes[SlotBack(0)].x <= 900) =>
             pipes[SlotBack(0)].x = 800 - 3 * UpdatesSinceSpawn)
    /\ []((Clock16 /\ ~game_over) =>
             \A k \in 0 .. 9 :
                 pipes[SlotBack(k)].x <= 900 =>
                     \/ pipes[SlotBack(k)].x = 800 - 3 * (UpdatesSinceSpawn + 94 * k)
                     \/ \E j \in 0 .. (k - 1) : pipes[SlotBack(j)].x > 900)
    /\ [][UpdateStep =>
             \A i \in PipeIndex :
                 pipes'[i].x = IF XAtAdvance(i) <= 900 THEN XAtAdvance(i) - 3
                               ELSE XAtAdvance(i)]_vars

\* The pipe before the latest one has been advanced 134 times.
C11_Witness ==
    /\ ~game_over /\ Clock16
    /\ UpdatesSinceSpawn = 40
    /\ pipes[SlotBack(0)].x = 800 - 3 * 40
    /\ pipes[SlotBack(1)].x = 398
    /\ \E i \in PipeIndex : pipes[i].x = 1600

\* This step's update spawns a pipe.
SpawnStep == UpdateStep /\ ticks - last_pipe_time > 1500

\* The boxes of pipe p are the ones create_pipe() derives from its gap_y.
WellFormedPipe(p) ==
    /\ p.gap_y >= 135 /\ p.gap_y < 465
    /\ p.top_rect.y = 0 /\ p.top_rect.h = p.gap_y - 85
    /\ p.bottom_rect.y = p.gap_y + 85
    /\ p.bottom_rect.h = 600 - (p.gap_y + 85)
    /\ p.top_rect.w = 60 /\ p.bottom_rect.w = 60
    /\ p.top_rect.h >= 50 /\ p.bottom_rect.h >= 50
    /\ p.bottom_rect.y - (p.top_rect.y + p.top_rect.h) = 170
    /\ p.top_rect.y + p.top_rect.h >= 50
    /\ p.bottom_rect.y <= 600 - 50
    /\ p.gap_y = 300 =>
          (p.top_rect.h = 215 /\ p.bottom_rect.y = 385 /\ p.bottom_rect.h = 215)

(***************************************************************************)
(* C12.  Every pipe created by the spawn step has x = 800 (797 at the end *)
(* of the step, which also advances it), passed = false, gap_y in         *)
(* [135, 465), upper box from y = 0 with height gap_y - 85, lower box at  *)
(* y = gap_y + 85 with height 600 - (gap_y + 85), both 60 wide; so both   *)
(* heights are at least 50 and the 170-high gap is at least 50 from the   *)
(* top and the bottom of the screen (gap_y = 300: heights 215 and 215,    *)
(* lower box at y = 385).  The boxes stay so while the slot is in play.   *)
(***************************************************************************)
C12_CreatedPipe ==
    /\ [](\A i \in PipeIndex : pipes[i].x <= 900 => WellFormedPipe(pipes[i]))
    /\ [][SpawnStep =>
             /\ pipes'[next_pipe].x + 3 = 800
             /\ ~pipes'[next_pipe].passed
             /\ WellFormedPipe(pipes'[next_pipe])]_vars

\* A pipe with the lowest gap there is has just been created while a pipe
\* with its gap at 300 is in play.
C12_Witness ==
    /\ \E i \in PipeIndex : pipes[i].x = 797 /\ pipes[i].gap_y = 464
    /\ \E i \in PipeIndex : pipes[i].x <= 900 /\ pipes[i].gap_y = 300

\* Slot i is not overwritten in this step: it keeps its gap and its boxes'
\* y and h, and is advanced or left where it is.
SlotKept(i) ==
    /\ pipes'[i].gap_y = pipes[i].gap_y
    /\ pipes'[i].top_rect.h = pipes[i].top_rect.h
    /\ pipes'[i].bottom_rect.y = pipes[i].bottom_rect.y
    /\ pipes'[i].x = pipes[i].x \/ pipes'[i].x = pipes[i].x - 3

(***************************************************************************)
(* C13.  In a step that runs update_game(), a pipe is spawned if and only *)
(* if ticks - last_pipe_time > 1500 (strictly).  When it is, exactly the  *)
(* slot at the cursor is overwritten, the cursor advances by 1 modulo 10  *)
(* and last_pipe_time becomes the clock value; otherwise the cursor and   *)
(* last_pipe_time are unchanged and no slot is overwritten.  The cursor   *)
(* stays in 0..9 and moves in no other step.  So two consecutive spawns,  *)
(* and reset_game() and the first spawn after it, are more than 1500 ms   *)
(* apart.                                                                   *)
(***************************************************************************)
C13_SpawnRule ==
    /\ [](next_pipe \in 0 .. 9 /\ last_pipe_time <= ticks)
    /\ [][/\ (UpdateStep /\ ticks - last_pipe_time > 1500) =>
                /\ next_pipe' = (next_pipe + 1) % 10
                /\ last_pipe_time' = ticks
                /\ last_pipe_time' - last_pipe_time > 1500
                /\ pipes'[next_pipe].x = 797 /\ ~pipes'[next_pipe].passed
                /\ \A i \in PipeIndex \ {next_pipe} : SlotKept(i)
          /\ (UpdateStep /\ ticks - last_pipe_time <= 1500) =>
                /\ next_pipe' = next_pipe
                /\ last_pipe_time' = last_pipe_time
                /\ \A i \in PipeIndex : SlotKept(i)
          /\ ~UpdateStep =>
                /\ next_pipe' = next_pipe
                /\ last_pipe_time' = last_pipe_time \/ last_pipe_time' = ticks
                /\ \A i \in PipeIndex : pipes'[i].gap_y = pipes[i].gap_y]_vars

\* An update has run exactly 1500 ms after a spawn and has spawned nothing.
C13_Witness ==
    /\ ~game_over /\ frames > 0 /\ ~pressed
    /\ next_pipe = 1 /\ pipes[0].x = 800 - 6 /\ pipes[1].x = 1600
    /\ ticks - last_pipe_time = 2 * 1500

(***************************************************************************)
(* C14.  check_collision is symmetric: for every pair of rectangles a, b  *)
(* (zero-sized ones included), the call with the arguments exchanged      *)
(* returns what the call returned.                                         *)
(***************************************************************************)
C14_Symmetric ==
    [][(collision.called /\ collision'.swapped /\ ~collision.swapped) =>
          /\ collision'.a = collision.b /\ collision'.b = collision.a
          /\ collision'.result = collision.result]_vars

\* Both calls have been made on a zero-sized rectangle lying inside the other
\* one, and both have reported a collision.
C14_Witness ==
    /\ collision.swapped /\ collision.result
    /\ collision.b.w = 0 /\ collision.b.h = 0
    /\ collision.a.w = 2 /\ collision.a.h = 2
    /\ collision.b.x = collision.a.x + 1 /\ collision.b.y = collision.a.y + 1

(***************************************************************************)
(* C15.  check_collision(a, b) is false exactly when a.bottom <= b.top or *)
(* a.top >= b.bottom or a.right <= b.left or a.left >= b.right, and true  *)
(* otherwise; so two rectangles that only share a boundary edge           *)
(* (a.right = b.left, or a.bottom = b.top) never report a collision.      *)
(***************************************************************************)
C15_OpenBoundary ==
    collision.called =>
        LET a == collision.a
            b == collision.b
        IN  /\ ~collision.result <=>
                  \/ a.y + a.h <= b.y
                  \/ a.y >= b.y + b.h
                  \/ a.x + a.w <= b.x
                  \/ a.x >= b.x + b.w
            /\ (a.x + a.w = b.x \/ a.y + a.h = b.y) => ~collision.result
            /\ (b.x + b.w = a.x \/ b.y + b.h = a.y) => ~collision.result

\* Two rectangles of full size side by side, a's right edge on b's left edge,
\* have been tested and do not collide.
C15_Witness ==
    /\ collision.called /\ ~collision.swapped /\ ~collision.result
    /\ collision.a.w = 2 /\ collision.a.h = 2 /\ collision.b.w = 2 /\ collision.b.h = 2
    /\ collision.a.x + collision.a.w = collision.b.x
    /\ collision.a.y = collision.b.y

(***************************************************************************)
(* C16 as claimed.  In every reachable state, in every slot, the upper    *)
(* and the lower box have the slot's x as their x, also right after       *)
(* reset_game() has moved the slot to x = 1600.                            *)
(***************************************************************************)
C16_Original ==
    \A i \in PipeIndex :
        pipes[i].top_rect.x = pipes[i].x /\ pipes[i].bottom_rect.x = pipes[i].x

(***************************************************************************)
(* C16 as amended.  In every reachable state, in every slot in play       *)
(* (spawned since the last reset, x <= 900), the upper and the lower box  *)
(* have the slot's x as their x.  reset_game() moves only the slot's x to *)
(* 1600 and leaves both boxes where they were (at x = 0 in a slot that    *)
(* was never spawned), and they stay there until the slot is spawned.     *)
(***************************************************************************)
C16_BoxesFollowInPlay ==
    /\ [](\A i \in PipeIndex :
             pipes[i].x <= 900 =>
                 (pipes[i].top_rect.x = pipes[i].x /\ pipes[i].bottom_rect.x = pipes[i].x))
    /\ [][\A i \in PipeIndex :
             (pipes'[i].x = 1600) =>
                 /\ pipes'[i].top_rect = pipes[i].top_rect
                 /\ pipes'[i].bottom_rect = pipes[i].bottom_rect]_vars

\* The game has been restarted and goes on: a slot at x = 1600 still has its
\* boxes where the last game left them, next to a slot in play.
C16_Witness ==
    /\ ~game_over
    /\ \E i \in PipeIndex :
          /\ pipes[i].x = 1600
          /\ pipes[i].top_rect.x > 0 /\ pipes[i].top_rect.x < 800
          /\ pipes[i].bottom_rect.x = pipes[i].top_rect.x
    /\ \E i \in PipeIndex : pipes[i].x <= 900

(***************************************************************************)
(* C17.  In a run whose every loop iteration advances the clock by the    *)
(* 16 ms frame delay, the ring is never short of slots: whenever a spawn  *)
(* overwrites a slot, that slot was never spawned since the last reset    *)
(* (x = 1600) or its pipe has scrolled off the left of the screen         *)
(* (x + 60 <= 0); no visible pipe disappears.                              *)
(***************************************************************************)
C17_RingNeverShort ==
    [][(SpawnStep /\ Clock16) =>
          \/ pipes[next_pipe].x = 1600
          \/ pipes[next_pipe].x + 60 <= 0]_vars

\* The ring has wrapped: slot 0 holds the 11th pipe, just spawned, and the
\* nine others hold older pipes, the oldest far off the left of the screen.
C17_Witness ==
    /\ Clock16 /\ ~game_over
    /\ next_pipe = 1
    /\ pipes[0].x = 797
    /\ \A i \in 1 .. 9 : pipes[i].x < pipes[0].x
    /\ pipes[1].x + 60 <= 0
    /\ score >= 8

(***************************************************************************)
(* C18.  In the score readout of render_game() for a nonzero score, the   *)
(* digits are taken least-significant first and each next digit is placed *)
(* to the left of the previous one, so that the glyphs read               *)
(* most-significant digit first from left to right (score 12: the glyph   *)
(* for 1 at a smaller x than the glyph for 2).                             *)
(***************************************************************************)
C18_ReadsLeftToRight ==
    (readout # NothingDrawn /\ score > 0) =>
        /\ readout[1].digit = score % 10
        /\ \A k \in 1 .. (Len(readout) - 1) :
              /\ readout[k + 1].digit = (score \div (10 ^ k)) % 10
              /\ readout[k + 1].x < readout[k].x

\* Slot i has not been spawned since the last reset_game() and is not spawned
\* in this step.
Dormant(i) ==
    /\ pipes[i].x = 1600
    /\ ~(ticks - last_pipe_time > 1500 /\ i = next_pipe)

\* The bird's box is clear of the two boxes of every slot in play, and above
\* the ground line.
ClearOfPipesInPlay ==
    /\ bird.rect.y + 30 <= 580
    /\ \A i \in PipeIndex :
          pipes[i].x <= 900 =>
              /\ ~Overlap(bird.rect, pipes[i].top_rect)
              /\ ~Overlap(bird.rect, pipes[i].bottom_rect)

(***************************************************************************)
(* C19.  Slots that have not been spawned since the last reset_game() are *)
(* inert: a step that runs update_game() leaves such a slot exactly as it *)
(* is (not advanced, not marked passed, its boxes untouched), score       *)
(* counts only slots that are not dormant, and game_over is not set when  *)
(* the bird's box ends the step above the ground and clear of the slots   *)
(* in play -- although reset_game() leaves the passed flag and the boxes  *)
(* of every slot as they were (only x is set to 1600), so that the boxes  *)
(* may overlap the bird's box.                                             *)
(***************************************************************************)
C19_DormantSlotsInert ==
    [][/\ UpdateStep =>
            /\ \A i \in PipeIndex : Dormant(i) => pipes'[i] = pipes[i]
            /\ score' - score =
                 Cardinality({i \in PipeIndex :
                                 ~Dormant(i) /\ ~pipes[i].passed /\ pipes'[i].passed})
            /\ ClearOfPipesInPlay' => ~game_over'
       /\ (JumpStep /\ game_over) =>
            \A i \in PipeIndex :
                pipes'[i] = [pipes[i] EXCEPT !.x = 1600]]_vars

\* After a restart the game has gone on for several updates while the bird's
\* box overlaps the lower box a dormant slot has kept from the last game,
\* and another dormant slot still is marked passed.
C19_Witness ==
    /\ ~game_over /\ ~pressed
    /\ ticks - last_pipe_time >= 5 * 16
    /\ \E i \in PipeIndex :
          pipes[i].x = 1600 /\ Overlap(bird.rect, pipes[i].bottom_rect)
    /\ \E i \in PipeIndex : pipes[i].x = 1600 /\ pipes[i].passed

\* Nobody plays: no jump event ever arrives.
NoJumps == scenario.player.kind = "idle"

\* floor(|f| * 2^k) of a binary32 value f.
F32Scaled(f, k) ==
    IF f.exp + k >= 0 THEN f.man * Pow2(f.exp + k)
    ELSE IF f.exp + k <= -24 THEN 0
    ELSE f.man \div Pow2(0 - (f.exp + k))

\* |f - num/5| < 2^-10, for a binary32 value f >= 0 and an integer num >= 0
\* (f is compared in units of 2^-k).
NearFifths(f, num, k) ==
    LET d == 5 * F32Scaled(f, k) - num * Pow2(k)
    IN  ~f.neg /\ d < 5 * Pow2(k - 10) /\ 0 - d < 5 * Pow2(k - 10)

(***************************************************************************)
(* C20 as claimed.  From the reset state, if no jump event ever arrives,  *)
(* game_over eventually becomes true, whatever the clock values and the   *)
(* gap positions are: after n updates the velocity is 0.4*n and y is      *)
(* 300 + 0.2*n*(n+1), the ground test fires no later than the 35th        *)
(* update, and no pipe can reach the bird before.  The equalities are     *)
(* stated where both sides are whole numbers, which a float holds         *)
(* exactly: the velocity when 5 divides n, y when 5 divides n*(n+1).      *)
(***************************************************************************)
C20_Original ==
    /\ NoJumps ~> game_over
    /\ [](NoJumps =>
            /\ frames >= 35 => game_over
            /\ frames <= 35 =>
                  /\ frames % 5 = 0 =>
                        bird.velocity = F32FromInt((2 * frames) \div 5)
                  /\ (frames * (frames + 1)) % 5 = 0 =>
                        bird.y = F32FromInt(300 + (frames * (frames + 1)) \div 5)
                  /\ \A i \in PipeIndex :
                        pipes[i].x <= 900 => pipes[i].x > 200 + 40)

(***************************************************************************)
(* C20 as amended.  From the reset state, if no jump event ever arrives,  *)
(* game_over eventually becomes true, whatever the clock values and the   *)
(* gap positions are: after n updates the velocity is 0.4*n and y is      *)
(* 300 + 0.2*n*(n+1) up to the rounding of the float arithmetic (to       *)
(* within 2^-10; y may lie just under a whole number, as 537.99... after  *)
(* 34 updates, and the box is then one unit higher than the formula       *)
(* gives), no pipe has come within reach of the bird's box, and the       *)
(* ground test fires in the 35th update and not before.                    *)
(***************************************************************************)
C20_FallsToGround ==
    /\ NoJumps ~> game_over
    /\ [](NoJumps =>
            /\ game_over <=> frames >= 35
            /\ frames >= 35 => bird.rect.y + 30 > 580
            /\ frames <= 35 =>
                  /\ NearFifths(bird.velocity, 2 * frames, 20)
                  /\ NearFifths(bird.y, 1500 + frames * (frames + 1), 16)
                  /\ \A i \in PipeIndex :
                        pipes[i].x <= 900 => pipes[i].x > 200 + 40)

\* The bird has just hit the ground, in its 35th update, with pipes under way.
\* The float y is a little under 300 + 0.2*35*36 = 552, so the box is at 551.
C20_Witness ==
    /\ NoJumps /\ game_over /\ frames = 35
    /\ bird.rect.y = 551
    /\ \E i \in PipeIndex : pipes[i].x <= 900

=============================================================================
